---- MODULE Spec2Model ----
(***************************************************************************)
(* Model of main.py: the POST /review handler review_code_endpoint, the    *)
(* start-up configuration of the Gemini client, and the text processing    *)
(* the handler applies to the upload and to the model's reply.             *)
(*                                                                         *)
(* Text is a sequence of Unicode code points (Python str); an upload is a  *)
(* sequence of bytes (Python bytes).                                       *)
(***************************************************************************)
EXTENDS Integers, Sequences, FiniteSets, TLC

(***************************************************************************)
(* Bounds of the model.                                                    *)
(***************************************************************************)
NumRequests == 2
MaxPieces == 3

--------------------------------------------------------------------------
(* Generic helpers on sequences.                                           *)

StartsWithAt(s, i, pat) ==
    /\ i + Len(pat) - 1 <= Len(s)
    /\ \A k \in 1..Len(pat) : s[i + k - 1] = pat[k]

Contains(s, pat) == \E i \in 1..(Len(s) + 1) : StartsWithAt(s, i, pat)

\* The first index j in i..n with P(j); n + 1 when there is none.
FirstIndex(i, n, P(_)) ==
    CHOOSE j \in i..(n + 1) : (j = n + 1 \/ P(j)) /\ \A k \in i..(j - 1) : ~P(k)

\* The least element of hits that is at least i; n + 1 when there is none.
NextHit(hits, i, n) ==
    IF \A k \in hits : k < i THEN n + 1
    ELSE CHOOSE j \in hits : j >= i /\ \A k \in hits : k >= i => j <= k

\* F applied to the value of x: x is evaluated once, as Python evaluates the
\* operand of a call or the right-hand side of an assignment.
With(x, F(_)) == CHOOSE y \in {F(v) : v \in {x}} : TRUE

--------------------------------------------------------------------------
(* bytes.decode("utf-8"), strict error handling (main.py line 109).        *)

IsCont(b) == b >= 128 /\ b <= 191

RECURSIVE DecodeFrom(_, _, _)
DecodeFrom(bytes, i, acc) ==
    IF i > Len(bytes) THEN [ok |-> TRUE, text |-> acc]
    ELSE LET b  == bytes[i]
             n  == Len(bytes) - i
             b2 == bytes[i + 1]
             b3 == bytes[i + 2]
             b4 == bytes[i + 3]
             bad == [ok |-> FALSE, text |-> << >>]
         IN  IF b < 128 THEN
                 \* a run of ASCII bytes decodes to the same code points
                 With(FirstIndex(i, Len(bytes), LAMBDA k : bytes[k] >= 128),
                      LAMBDA j : DecodeFrom(bytes, j, acc \o SubSeq(bytes, i, j - 1)))
             ELSE IF b >= 194 /\ b <= 223 THEN
                 IF n >= 1 /\ IsCont(b2)
                 THEN DecodeFrom(bytes, i + 2,
                                 Append(acc, (b - 192) * 64 + (b2 - 128)))
                 ELSE bad
             ELSE IF b >= 224 /\ b <= 239 THEN
                 IF /\ n >= 2
                    /\ IsCont(b2)
                    /\ IsCont(b3)
                    /\ (b = 224 => b2 >= 160)
                    /\ (b = 237 => b2 <= 159)
                 THEN DecodeFrom(bytes, i + 3,
                                 Append(acc, (b - 224) * 4096 + (b2 - 128) * 64
                                             + (b3 - 128)))
                 ELSE bad
             ELSE IF b >= 240 /\ b <= 244 THEN
                 IF /\ n >= 3
                    /\ IsCont(b2)
                    /\ IsCont(b3)
                    /\ IsCont(b4)
                    /\ (b = 240 => b2 >= 144)
                    /\ (b = 244 => b2 <= 143)
                 THEN DecodeFrom(bytes, i + 4,
                                 Append(acc, (b - 240) * 262144 + (b2 - 128) * 4096
                                             + (b3 - 128) * 64 + (b4 - 128)))
                 ELSE bad
             ELSE bad

Utf8Decode(bytes) == With(bytes, LAMBDA b : DecodeFrom(b, 1, << >>))

--------------------------------------------------------------------------
(* str.strip(): removes leading and trailing characters for which          *)
(* str.isspace() is true (main.py lines 110 and 121).                      *)

IsSpace(c) ==
    \/ c \in 9..13
    \/ c \in 28..32
    \/ c \in {133, 160, 5760, 8232, 8233, 8239, 8287, 12288}
    \/ c \in 8192..8202

LStrip(s) ==
    SubSeq(s, FirstIndex(1, Len(s), LAMBDA j : ~IsSpace(s[j])), Len(s))

\* The scan runs from the end: k counts the characters dropped, plus one.
RStrip(s) ==
    SubSeq(s, 1, Len(s) + 1
                 - FirstIndex(1, Len(s), LAMBDA k : ~IsSpace(s[Len(s) + 1 - k])))

Strip(s) == With(s, LAMBDA t : With(LStrip(t), RStrip))

--------------------------------------------------------------------------
(* str.replace(old, ""): removes the non-overlapping occurrences of old,   *)
(* scanning from the left (main.py line 121).                              *)

\* s from index i on without the occurrences of old that start at i or later;
\* hits: the indices of s at which old occurs.
RECURSIVE RemoveFrom(_, _, _, _)
RemoveFrom(s, i, old, hits) ==
    With(NextHit(hits, i, Len(s)),
         LAMBDA j : IF j > Len(s) THEN SubSeq(s, i, Len(s))
                    ELSE SubSeq(s, i, j - 1)
                         \o RemoveFrom(s, j + Len(old), old, hits))

Remove(s, old) ==
    With(s, LAMBDA t :
        With({k \in 1..Len(t) : StartsWithAt(t, k, old)},
             LAMBDA hits : RemoveFrom(t, 1, old, hits)))

\* "```json"
FenceJson == <<96, 96, 96, 106, 115, 111, 110>>
\* "```"
Fence == <<96, 96, 96>>

\* Mutant: the two replacements in the other order.
CleanResponseFenceFirst(text) ==
    Strip(Remove(Remove(Strip(text), Fence), FenceJson))

\* response.text.strip().replace("```json", "").replace("```", "").strip()
CleanResponse(text) == Strip(Remove(Remove(Strip(text), FenceJson), Fence))

--------------------------------------------------------------------------
(* json.loads (main.py line 123).  A JSON value is a tagged tuple:         *)
(*   <<"null">>, <<"true">>, <<"false">>, <<"int", n>>,                    *)
(*   <<"float", lexeme>>, <<"nonfinite", lexeme>> (NaN, Infinity,          *)
(*   -Infinity, which Python's decoder accepts), <<"str", text>>,          *)
(*   <<"array", items>>, <<"object", members>> with members a sequence of  *)
(*   <<key, value>> pairs in insertion order (a Python dict).              *)
(* A parse result is [ok, val, end]; ok = FALSE is json.JSONDecodeError.   *)

Fail == [ok |-> FALSE, val |-> <<"null">>, end |-> 0]
Ok(v, e) == [ok |-> TRUE, val |-> v, end |-> e]

\* WHITESPACE = re.compile(r'[ \t\n\r]*')
SkipWs(s, i) == FirstIndex(i, Len(s), LAMBDA j : s[j] \notin {32, 9, 10, 13})

IsDigit(c) == c >= 48 /\ c <= 57

DigitsEnd(s, i) == FirstIndex(i, Len(s), LAMBDA j : ~IsDigit(s[j]))

RECURSIVE DigitsValue(_, _, _, _)
DigitsValue(s, i, j, acc) ==
    IF i >= j THEN acc ELSE DigitsValue(s, i + 1, j, acc * 10 + (s[i] - 48))

\* 'NaN', 'Infinity', '-Infinity': tried by the scanner after the number.
LitNaN == <<78, 97, 78>>
LitInfinity == <<73, 110, 102, 105, 110, 105, 116, 121>>
LitNegInfinity == <<45, 73, 110, 102, 105, 110, 105, 116, 121>>

ScanNonFinite(s, i) ==
    IF StartsWithAt(s, i, LitNaN) THEN Ok(<<"nonfinite", LitNaN>>, i + 3)
    ELSE IF StartsWithAt(s, i, LitInfinity)
         THEN Ok(<<"nonfinite", LitInfinity>>, i + 8)
    ELSE IF StartsWithAt(s, i, LitNegInfinity)
         THEN Ok(<<"nonfinite", LitNegInfinity>>, i + 9)
    ELSE Fail

\* NUMBER_RE = (-?(?:0|[1-9]\d*))(\.\d+)?([eE][-+]?\d+)?
\* i: start of the lexeme, d0: after the sign, intEnd: after the integer part,
\* fracEnd: after the fraction, expFrom: where the exponent digits must start.
NumberExp(s, i, d0, intEnd, fracEnd, expFrom) ==
    IF /\ fracEnd <= Len(s)
       /\ s[fracEnd] \in {69, 101}
       /\ expFrom <= Len(s)
       /\ IsDigit(s[expFrom])
    THEN Ok(<<"float", SubSeq(s, i, DigitsEnd(s, expFrom) - 1)>>, DigitsEnd(s, expFrom))
    ELSE IF fracEnd > intEnd
         THEN Ok(<<"float", SubSeq(s, i, fracEnd - 1)>>, fracEnd)
    ELSE Ok(<<"int", IF d0 > i THEN 0 - DigitsValue(s, d0, intEnd, 0)
                     ELSE DigitsValue(s, d0, intEnd, 0)>>, intEnd)

NumberFrac(s, i, d0, intEnd, fracEnd) ==
    NumberExp(s, i, d0, intEnd, fracEnd,
              IF fracEnd + 1 <= Len(s) /\ s[fracEnd + 1] \in {43, 45}
              THEN fracEnd + 2 ELSE fracEnd + 1)

NumberInt(s, i, d0, intEnd) ==
    With(IF intEnd + 1 <= Len(s) /\ s[intEnd] = 46 /\ IsDigit(s[intEnd + 1])
         THEN DigitsEnd(s, intEnd + 1) ELSE intEnd,
         LAMBDA fracEnd : NumberFrac(s, i, d0, intEnd, fracEnd))

NumberSigned(s, i, d0) ==
    IF ~(d0 <= Len(s) /\ IsDigit(s[d0])) THEN ScanNonFinite(s, i)
    ELSE With(IF s[d0] = 48 THEN d0 + 1 ELSE DigitsEnd(s, d0),
              LAMBDA intEnd : NumberInt(s, i, d0, intEnd))

\* The number at i or, when there is none, NaN, Infinity or -Infinity.
ParseNumber(s, i) == NumberSigned(s, i, IF s[i] = 45 THEN i + 1 ELSE i)

HexVal(c) ==
    IF c >= 48 /\ c <= 57 THEN c - 48
    ELSE IF c >= 97 /\ c <= 102 THEN c - 87
    ELSE IF c >= 65 /\ c <= 70 THEN c - 55
    ELSE 0 - 1

IsHex4(s, i) == i + 3 <= Len(s) /\ \A k \in 0..3 : HexVal(s[i + k]) >= 0

Hex4(s, i) ==
    HexVal(s[i]) * 4096 + HexVal(s[i + 1]) * 256 + HexVal(s[i + 2]) * 16
    + HexVal(s[i + 3])

\* BACKSLASH = {'"': '"', '\\': '\\', '/': '/', 'b': '\b', 'f': '\f',
\*              'n': '\n', 'r': '\r', 't': '\t'}
Unescape(e) ==
    CASE e = 98  -> 8
      [] e = 102 -> 12
      [] e = 110 -> 10
      [] e = 114 -> 13
      [] e = 116 -> 9
      [] OTHER   -> e

\* scanstring, strict: i is the index after the opening quote.
RECURSIVE ScanString(_, _, _)
ScanString(s, i, acc) ==
    IF i > Len(s) THEN Fail
    ELSE IF s[i] = 34 THEN Ok(<<"str", acc>>, i + 1)
    ELSE IF s[i] < 32 THEN Fail
    ELSE IF s[i] # 92 THEN
        \* a run of plain characters is taken as it is
        With(FirstIndex(i, Len(s),
                        LAMBDA k : s[k] = 34 \/ s[k] = 92 \/ s[k] < 32),
             LAMBDA j : ScanString(s, j, acc \o SubSeq(s, i, j - 1)))
    ELSE IF i + 1 > Len(s) THEN Fail
    ELSE IF s[i + 1] = 117 THEN
        IF ~IsHex4(s, i + 2) THEN Fail
        ELSE LET uni == Hex4(s, i + 2)
             IN  IF /\ uni >= 55296
                    /\ uni <= 56319
                    /\ StartsWithAt(s, i + 6, <<92, 117>>)
                 THEN IF ~IsHex4(s, i + 8) THEN Fail
                      ELSE LET uni2 == Hex4(s, i + 8)
                           IN  IF uni2 >= 56320 /\ uni2 <= 57343
                               THEN ScanString(s, i + 12,
                                        Append(acc, 65536 + (uni - 55296) * 1024
                                                    + (uni2 - 56320)))
                               ELSE ScanString(s, i + 6, Append(acc, uni))
                 ELSE ScanString(s, i + 6, Append(acc, uni))
    ELSE IF s[i + 1] \in {34, 92, 47, 98, 102, 110, 114, 116}
         THEN ScanString(s, i + 2, Append(acc, Unescape(s[i + 1])))
    ELSE Fail

\* dict[key] = value: a repeated key keeps its position and takes the new value.
Put(members, k, v) ==
    IF \E n \in 1..Len(members) : members[n][1] = k
    THEN [n \in 1..Len(members) |->
              IF members[n][1] = k THEN <<k, v>> ELSE members[n]]
    ELSE Append(members, <<k, v>>)

\* "null", "true", "false"
LitNull == <<110, 117, 108, 108>>
LitTrue == <<116, 114, 117, 101>>
LitFalse == <<102, 97, 108, 115, 101>>

RECURSIVE ParseValue(_, _)
RECURSIVE ParseMembers(_, _, _)
RECURSIVE ParseElements(_, _, _)

\* JSONObject, after a value: '}' ends the object, ',' asks for another member.
MemberNext(s, acc, e) ==
    IF e > Len(s) THEN Fail
    ELSE IF s[e] = 125 THEN Ok(<<"object", acc>>, e + 1)
    ELSE IF s[e] = 44
         THEN With(SkipWs(s, e + 1), LAMBDA i : ParseMembers(s, i, acc))
    ELSE Fail

MemberValue(s, acc, key, v) ==
    IF ~v.ok THEN Fail
    ELSE With(Put(acc, key, v.val),
              LAMBDA m : With(SkipWs(s, v.end), LAMBDA e : MemberNext(s, m, e)))

MemberColon(s, acc, key, c) ==
    IF ~(c <= Len(s) /\ s[c] = 58) THEN Fail
    ELSE With(SkipWs(s, c + 1),
              LAMBDA i : With(ParseValue(s, i),
                              LAMBDA v : MemberValue(s, acc, key, v)))

MemberKey(s, acc, k) ==
    IF ~k.ok THEN Fail
    ELSE With(SkipWs(s, k.end), LAMBDA c : MemberColon(s, acc, k.val[2], c))

\* JSONObject: i is where the opening quote of the next key must stand.
ParseMembers(s, i, acc) ==
    IF ~(i <= Len(s) /\ s[i] = 34) THEN Fail
    ELSE With(ScanString(s, i + 1, << >>), LAMBDA k : MemberKey(s, acc, k))

\* JSONArray, after a value: ']' ends the array, ',' asks for another element.
ElementNext(s, acc, e) ==
    IF e > Len(s) THEN Fail
    ELSE IF s[e] = 93 THEN Ok(<<"array", acc>>, e + 1)
    ELSE IF s[e] = 44
         THEN With(SkipWs(s, e + 1), LAMBDA i : ParseElements(s, i, acc))
    ELSE Fail

ElementValue(s, acc, v) ==
    IF ~v.ok THEN Fail
    ELSE With(Append(acc, v.val),
              LAMBDA m : With(SkipWs(s, v.end), LAMBDA e : ElementNext(s, m, e)))

\* JSONArray: i is where the next element must start.
ParseElements(s, i, acc) ==
    With(ParseValue(s, i), LAMBDA v : ElementValue(s, acc, v))

ObjectOpen(s, j) ==
    IF j <= Len(s) /\ s[j] = 125 THEN Ok(<<"object", << >>>>, j + 1)
    ELSE ParseMembers(s, j, << >>)

ArrayOpen(s, j) ==
    IF j <= Len(s) /\ s[j] = 93 THEN Ok(<<"array", << >>>>, j + 1)
    ELSE ParseElements(s, j, << >>)

\* scan_once
ParseValue(s, i) ==
    IF i > Len(s) THEN Fail
    ELSE IF s[i] = 34 THEN ScanString(s, i + 1, << >>)
    ELSE IF s[i] = 123 THEN With(SkipWs(s, i + 1), LAMBDA j : ObjectOpen(s, j))
    ELSE IF s[i] = 91 THEN With(SkipWs(s, i + 1), LAMBDA j : ArrayOpen(s, j))
    ELSE IF StartsWithAt(s, i, LitNull) THEN Ok(<<"null">>, i + 4)
    ELSE IF StartsWithAt(s, i, LitTrue) THEN Ok(<<"true">>, i + 4)
    ELSE IF StartsWithAt(s, i, LitFalse) THEN Ok(<<"false">>, i + 5)
    ELSE ParseNumber(s, i)

\* The value must be followed by white space only ("Extra data" otherwise).
LoadsEnd(s, r) ==
    IF ~r.ok THEN Fail
    ELSE IF SkipWs(s, r.end) # Len(s) + 1 THEN Fail
    ELSE r

\* json.loads(s): one value, surrounded by optional whitespace, nothing else.
LoadsFrom(s) ==
    IF s # << >> /\ s[1] = 65279 THEN Fail
    ELSE With(SkipWs(s, 1),
              LAMBDA i : With(ParseValue(s, i), LAMBDA r : LoadsEnd(s, r)))

JsonLoads(s) == With(s, LoadsFrom)

--------------------------------------------------------------------------
(* JSONResponse(content=review_data) (main.py line 126): the constructor   *)
(* renders the body at once, as                                            *)
(*   json.dumps(content, ensure_ascii=False, allow_nan=False,              *)
(*              separators=(",", ":")).encode("utf-8")                     *)

RECURSIVE IntDigits(_)
IntDigits(n) ==
    IF n < 10 THEN <<48 + n>> ELSE Append(IntDigits(n \div 10), 48 + (n % 10))

HexDigit(d) == IF d < 10 THEN 48 + d ELSE 87 + d

\* ESCAPE_DCT of json.encoder
EscapeChar(c) ==
    CASE c = 34 -> <<92, 34>>
      [] c = 92 -> <<92, 92>>
      [] c = 8  -> <<92, 98>>
      [] c = 12 -> <<92, 102>>
      [] c = 10 -> <<92, 110>>
      [] c = 13 -> <<92, 114>>
      [] c = 9  -> <<92, 116>>
      [] c < 32 /\ c \notin {8, 9, 10, 12, 13} ->
             <<92, 117, 48, 48, HexDigit(c \div 16), HexDigit(c % 16)>>
      [] OTHER  -> <<c>>

\* py_encode_basestring without the quotes: a run of plain characters is
\* copied, any other character is replaced by its escape.
\* hits: the indices of the characters that have an escape.
RECURSIVE EscapeFrom(_, _, _)
EscapeFrom(t, i, hits) ==
    IF i > Len(t) THEN << >>
    ELSE With(NextHit(hits, i, Len(t)),
              LAMBDA j : IF j > i
                         THEN SubSeq(t, i, j - 1) \o EscapeFrom(t, j, hits)
                         ELSE EscapeChar(t[i]) \o EscapeFrom(t, i + 1, hits))

EscapeText(t) ==
    With(t, LAMBDA u :
        With({k \in 1..Len(u) : u[k] = 34 \/ u[k] = 92 \/ u[k] < 32},
             LAMBDA hits : EscapeFrom(u, 1, hits)))

RECURSIVE Dumps(_)
RECURSIVE DumpItems(_, _)
RECURSIVE DumpMembers(_, _)

\* The float case writes repr(float), which is the lexeme itself for the short
\* decimal lexemes a reply of this model carries.
Dumps(v) ==
    CASE v[1] = "null"   -> LitNull
      [] v[1] = "true"   -> LitTrue
      [] v[1] = "false"  -> LitFalse
      [] v[1] = "int"    -> IF v[2] < 0 THEN <<45>> \o IntDigits(0 - v[2])
                            ELSE IntDigits(v[2])
      [] v[1] = "float"  -> v[2]
      [] v[1] = "nonfinite" -> v[2]
      [] v[1] = "str"    -> <<34>> \o EscapeText(v[2]) \o <<34>>
      [] v[1] = "array"  -> <<91>> \o DumpItems(v[2], 1) \o <<93>>
      [] v[1] = "object" -> <<123>> \o DumpMembers(v[2], 1) \o <<125>>

DumpItems(items, n) ==
    IF n > Len(items) THEN << >>
    ELSE (IF n > 1 THEN <<44>> ELSE << >>) \o Dumps(items[n])
         \o DumpItems(items, n + 1)

DumpMembers(members, n) ==
    IF n > Len(members) THEN << >>
    ELSE (IF n > 1 THEN <<44>> ELSE << >>)
         \o <<34>> \o EscapeText(members[n][1]) \o <<34, 58>>
         \o Dumps(members[n][2]) \o DumpMembers(members, n + 1)

\* allow_nan=False: ValueError on NaN, Infinity, -Infinity anywhere in the value.
RECURSIVE HasNonFinite(_)
HasNonFinite(v) ==
    CASE v[1] = "nonfinite" -> TRUE
      [] v[1] = "array"  -> \E n \in 1..Len(v[2]) : HasNonFinite(v[2][n])
      [] v[1] = "object" -> \E n \in 1..Len(v[2]) : HasNonFinite(v[2][n][2])
      [] OTHER -> FALSE

\* str.encode("utf-8"): UnicodeEncodeError on a surrogate code point.
IsSurrogate(c) == c >= 55296 /\ c <= 57343

EncodeChar(c) ==
    IF c < 128 THEN <<c>>
    ELSE IF c < 2048 THEN <<192 + (c \div 64), 128 + (c % 64)>>
    ELSE IF c < 65536
         THEN <<224 + (c \div 4096), 128 + ((c \div 64) % 64), 128 + (c % 64)>>
    ELSE <<240 + (c \div 262144), 128 + ((c \div 4096) % 64),
           128 + ((c \div 64) % 64), 128 + (c % 64)>>

\* hits: the indices of the characters outside ASCII.
RECURSIVE EncodeFrom(_, _, _)
EncodeFrom(t, i, hits) ==
    IF i > Len(t) THEN << >>
    ELSE With(NextHit(hits, i, Len(t)),
              LAMBDA j : IF j > i
                         THEN SubSeq(t, i, j - 1) \o EncodeFrom(t, j, hits)
                         ELSE EncodeChar(t[i]) \o EncodeFrom(t, i + 1, hits))

Utf8Encode(t) ==
    With(t, LAMBDA u :
        With({k \in 1..Len(u) : u[k] >= 128},
             LAMBDA hits : EncodeFrom(u, 1, hits)))

\* [ok, body, err]: the rendered body, or the exception render raises.
Render(v) ==
    IF HasNonFinite(v)
    THEN [ok |-> FALSE, body |-> << >>, err |-> "ValueError"]
    ELSE With(Dumps(v), LAMBDA text :
              IF \E n \in 1..Len(text) : IsSurrogate(text[n])
              THEN [ok |-> FALSE, body |-> << >>, err |-> "UnicodeEncodeError"]
              ELSE [ok |-> TRUE, body |-> Utf8Encode(text), err |-> "none"])

--------------------------------------------------------------------------
(* The shape the prompt asks the model for (main.py lines 70-82): five     *)
(* criteria keys, each an object with an integer "rating" and a string     *)
(* "comment".                                                              *)

KeyReadability == <<82, 101, 97, 100, 97, 98, 105, 108, 105, 116, 121>>
KeyModularity ==
    <<77, 111, 100, 117, 108, 97, 114, 105, 116, 121, 95, 83, 116, 114, 117, 99,
      116, 117, 114, 101>>
KeyPotentialBugs ==
    <<80, 111, 116, 101, 110, 116, 105, 97, 108, 95, 66, 117, 103, 115>>
KeyBestPractices ==
    <<66, 101, 115, 116, 95, 80, 114, 97, 99, 116, 105, 99, 101, 115>>
KeySecurity == <<83, 101, 99, 117, 114, 105, 116, 121>>
KeyRating == <<114, 97, 116, 105, 110, 103>>
KeyComment == <<99, 111, 109, 109, 101, 110, 116>>

CriteriaKeys ==
    {KeyReadability, KeyModularity, KeyPotentialBugs, KeyBestPractices, KeySecurity}

HasKey(members, k) == \E n \in 1..Len(members) : members[n][1] = k

Get(members, k) ==
    members[CHOOSE n \in 1..Len(members) : members[n][1] = k][2]

IsCriterionResult(v) ==
    /\ v[1] = "object"
    /\ HasKey(v[2], KeyRating)
    /\ Get(v[2], KeyRating)[1] = "int"
    /\ HasKey(v[2], KeyComment)
    /\ Get(v[2], KeyComment)[1] = "str"

IsReviewResult(v) ==
    /\ v[1] = "object"
    /\ \A k \in CriteriaKeys : HasKey(v[2], k) /\ IsCriterionResult(Get(v[2], k))

--------------------------------------------------------------------------
(* Inputs of the model: the environment at start-up, the uploads, and what *)
(* the model service can do with a call.                                   *)

\* os.environ["GEMINI_API_KEY"]: missing (KeyError), empty, or a key.
EnvKeys == {"<missing>", "", "AIza-key"}

\* b"" (empty), b" \xc2\xa0\n" (white space, U+00A0 among it),
\* b"\xc3\xa9=1" (code, with a two-byte character), b"\xff" (not UTF-8).
UploadEmpty == << >>
UploadBlank == <<32, 194, 160, 10>>
UploadCode == <<195, 169, 61, 49>>
UploadNotUtf8 == <<255>>

Uploads == {UploadEmpty, UploadBlank, UploadCode, UploadNotUtf8}

\* A reply of the shape the prompt asks for: the five criteria, minified.
ReplyReview ==
    <<123, 34, 82, 101, 97, 100, 97, 98, 105, 108, 105, 116, 121, 34, 58, 123,
      34, 114, 97, 116, 105, 110, 103, 34, 58, 56, 44, 34, 99, 111, 109, 109,
      101, 110, 116, 34, 58, 34, 67, 108, 101, 97, 114, 32, 110, 97, 109, 105,
      110, 103, 46, 34, 125, 44, 34, 77, 111, 100, 117, 108, 97, 114, 105, 116,
      121, 95, 83, 116, 114, 117, 99, 116, 117, 114, 101, 34, 58, 123, 34, 114,
      97, 116, 105, 110, 103, 34, 58, 54, 44, 34, 99, 111, 109, 109, 101, 110,
      116, 34, 58, 34, 76, 97, 114, 103, 101, 46, 34, 125, 44, 34, 80, 111, 116,
      101, 110, 116, 105, 97, 108, 95, 66, 117, 103, 115, 34, 58, 123, 34, 114,
      97, 116, 105, 110, 103, 34, 58, 57, 44, 34, 99, 111, 109, 109, 101, 110,
      116, 34, 58, 34, 78, 111, 110, 101, 46, 34, 125, 44, 34, 66, 101, 115,
      116, 95, 80, 114, 97, 99, 116, 105, 99, 101, 115, 34, 58, 123, 34, 114,
      97, 116, 105, 110, 103, 34, 58, 55, 44, 34, 99, 111, 109, 109, 101, 110,
      116, 34, 58, 34, 77, 105, 110, 111, 114, 46, 34, 125, 44, 34, 83, 101,
      99, 117, 114, 105, 116, 121, 34, 58, 123, 34, 114, 97, 116, 105, 110,
      103, 34, 58, 49, 48, 44, 34, 99, 111, 109, 109, 101, 110, 116, 34, 58,
      34, 78, 111, 32, 105, 115, 115, 117, 101, 115, 46, 34, 125, 125>>

\* "I cannot review this."
ReplyRefusal ==
    <<73, 32, 99, 97, 110, 110, 111, 116, 32, 114, 101, 118, 105, 101, 119, 32,
      116, 104, 105, 115, 46>>

\* '{"a":1}'
JsonA1 == <<123, 34, 97, 34, 58, 49, 125>>

\* Replies of the model service: the review, '{"a":1}' inside a markdown
\* fence with newlines, a refusal, an empty reply, '{}', '{"Security":NaN}'.
Replies ==
    { ReplyReview,
      <<32>> \o FenceJson \o <<10>> \o JsonA1 \o <<10>> \o Fence \o <<10>>,
      ReplyRefusal,
      << >>,
      <<123, 125>>,
      <<123, 34>> \o KeySecurity \o <<34, 58>> \o LitNaN \o <<125>> }

\* What model.generate_content(prompt) can do: return a response with text,
\* return a response whose .text accessor raises ValueError (no valid part),
\* or raise (transport or service failure).
Outcomes ==
    {[kind |-> "text", text |-> t] : t \in Replies}
    \cup {[kind |-> "blocked", text |-> << >>], [kind |-> "raise", text |-> << >>]}

NoOutcome == [kind |-> "none", text |-> << >>]

--------------------------------------------------------------------------
(* State.                                                                  *)

Requests == 1..NumRequests

VARIABLES
    GEMINI_API_KEY,        \* the environment variable read at start-up
    model,                 \* the module-level client: "None" or "GenerativeModel"
    thread,                \* the request whose handler runs on the event loop; 0: none
    pc,                    \* where each request's handler stands
    file,                  \* the uploaded bytes, per request
    code_content,          \* locals of review_code_endpoint, per request
    prompt,
    response,
    cleaned_response_text,
    review_data,
    http,                  \* the HTTP responses sent for each request
    calls,                 \* number of model.generate_content calls, per request
    trace                  \* the handler steps executed, per request

vars ==
    <<GEMINI_API_KEY, model, thread, pc, file, code_content, prompt, response,
      cleaned_response_text, review_data, http, calls, trace>>

\* Mutant: without the `if not GEMINI_API_KEY` test of line 17.
ModelAtStartupMissingOnly(key) ==
    IF key = "<missing>" THEN "None" ELSE "GenerativeModel"

\* Lines 15-25: KeyError when the variable is missing or empty; model = None.
ModelAtStartup(key) ==
    IF key = "<missing>" \/ key = "" THEN "None" ELSE "GenerativeModel"

Init ==
    /\ GEMINI_API_KEY \in EnvKeys
    /\ model = ModelAtStartup(GEMINI_API_KEY)
    /\ thread = 0
    /\ pc = [r \in Requests |-> "idle"]
    /\ file = [r \in Requests |-> << >>]
    /\ code_content = [r \in Requests |-> << >>]
    /\ prompt = [r \in Requests |-> << >>]
    /\ response = [r \in Requests |-> NoOutcome]
    /\ cleaned_response_text = [r \in Requests |-> << >>]
    /\ review_data = [r \in Requests |-> <<"unset">>]
    /\ http = [r \in Requests |-> << >>]
    /\ calls = [r \in Requests |-> 0]
    /\ trace = [r \in Requests |-> << >>]

--------------------------------------------------------------------------
(* Responses and exceptions.                                               *)

\* An HTTPException that leaves the handler becomes the response
\* {"detail": detail} with its status code.  detail is a sequence of the
\* string parts it is formatted from.
HTTPException(status, detail) ==
    [status |-> status, detail |-> detail, body |-> << >>]

JSONResponse(body) == [status |-> 200, detail |-> << >>, body |-> body]

\* str(e) of an HTTPException: "<status>: <detail>" where Starlette defines
\* __str__, "" where it does not (the exception is built with keyword
\* arguments only).
StrOfHTTPException == {"", "400: The uploaded file is empty."}

\* The except clauses of lines 128-137, applied to an exception e = [type, str]
\* raised inside the try block.  Every type raised here derives from Exception.
DetailParse ==
    "Failed to parse the AI model's response. The model returned an invalid format."
DetailUnexpected == "An unexpected error occurred: "
DetailEmpty == "The uploaded file is empty."
DetailUnconfigured ==
    "LLM service is not configured. The server is missing the GEMINI_API_KEY."

\* Descriptions (str(e)) of the exceptions the steps of the handler raise.
StrUnicodeDecodeError == "'utf-8' codec can't decode byte: invalid start byte"
StrServiceError == "503 The service is currently unavailable."
StrNoTextPart == "The response.text quick accessor requires the response to contain a valid Part"
StrJSONDecodeError == "Expecting value"
StrNotJSONCompliant == "Out of range float values are not JSON compliant"

\* Mutant: the clauses in the other order, `except Exception` first.
CatchGenericFirst(e) ==
    HTTPException(500, <<DetailUnexpected, e.str>>)

\* Mutant: the generic clause without the description of the error.
CatchWithoutDescription(e) ==
    IF e.type = "JSONDecodeError"
    THEN HTTPException(500, <<DetailParse>>)
    ELSE HTTPException(500, <<DetailUnexpected>>)

Catch(e) ==
    IF e.type = "JSONDecodeError"
    THEN HTTPException(500, <<DetailParse>>)
    ELSE HTTPException(500, <<DetailUnexpected, e.str>>)

Step(r, name) == trace' = [trace EXCEPT ![r] = Append(@, name)]

\* Mutant: the handler ends without a response being sent.
RespondWithoutResponse(r, resp) ==
    /\ UNCHANGED http
    /\ pc' = [pc EXCEPT ![r] = "done"]
    /\ thread' = 0

\* The request ends: the response is sent and the event loop is free again.
Respond(r, resp) ==
    /\ http' = [http EXCEPT ![r] = Append(@, resp)]
    /\ pc' = [pc EXCEPT ![r] = "done"]
    /\ thread' = 0

Goto(r, label) ==
    /\ pc' = [pc EXCEPT ![r] = label]
    /\ UNCHANGED http

--------------------------------------------------------------------------
(* review_code_endpoint, lines 93-137.  The handler is a coroutine on the  *)
(* worker's single event loop: it runs alone from one await to the next.   *)

\* POST /review arrives with one file part; the handler is scheduled.
\* Requests are numbered in the order of their arrival.
Receive(r) ==
    /\ pc[r] = "idle"
    /\ \A q \in 1..(r - 1) : pc[q] # "idle"
    /\ \E bytes \in Uploads : file' = [file EXCEPT ![r] = bytes]
    /\ pc' = [pc EXCEPT ![r] = "start"]
    /\ UNCHANGED <<GEMINI_API_KEY, model, thread, code_content, prompt, response,
                   cleaned_response_text, review_data, http, calls, trace>>

\* Lines 100-104, outside the try block; then line 109 starts
\* `await file.read()`, which suspends the handler.
NotModel == model = "None"

ConfigCheck(r) ==
    /\ pc[r] = "start"
    /\ thread = 0
    /\ Step(r, "config")
    /\ IF NotModel
       THEN Respond(r, HTTPException(503, <<DetailUnconfigured>>))
       ELSE Goto(r, "reading") /\ UNCHANGED thread
    /\ UNCHANGED <<GEMINI_API_KEY, model, file, code_content, prompt, response,
                   cleaned_response_text, review_data, calls>>

\* Line 109: the read completes, the handler resumes and decodes the bytes.
ReadDecode(r) ==
    /\ pc[r] = "reading"
    /\ thread = 0
    /\ Step(r, "decode")
    /\ \E d \in {Utf8Decode(file[r])} :
           IF d.ok
           THEN /\ code_content' = [code_content EXCEPT ![r] = d.text]
                /\ Goto(r, "check")
                /\ thread' = r
           ELSE /\ Respond(r, Catch([type |-> "UnicodeDecodeError",
                                     str |-> StrUnicodeDecodeError]))
                /\ UNCHANGED code_content
    /\ UNCHANGED <<GEMINI_API_KEY, model, file, prompt, response,
                   cleaned_response_text, review_data, calls>>

\* Mutant: `if not code_content`, without strip().
IsEmptyContentNoStrip(code) == code = << >>

\* Lines 110-111: `if not code_content.strip(): raise HTTPException(400, ...)`,
\* raised inside the try block.
IsEmptyContent(code) == Strip(code) = << >>

EmptyCheck(r) ==
    /\ pc[r] = "check"
    /\ thread = r
    /\ Step(r, "empty")
    /\ IF IsEmptyContent(code_content[r])
       THEN \E s \in StrOfHTTPException :
                Respond(r, Catch([type |-> "HTTPException", str |-> s]))
       ELSE Goto(r, "prompt") /\ UNCHANGED thread
    /\ UNCHANGED <<GEMINI_API_KEY, model, file, code_content, prompt, response,
                   cleaned_response_text, review_data, calls>>

\* Lines 48-88: the f-string template with the file name and the code in it.
create_review_prompt(code, filename) ==
    <<"You are an expert code reviewer named CodeSage. [...] File Name: ",
      filename,
      " [...] five criteria [...] Output Format [...] Code to Review: ",
      code,
      " [end of the fenced code block]">>

\* Line 114.
BuildPrompt(r) ==
    /\ pc[r] = "prompt"
    /\ thread = r
    /\ Step(r, "prompt")
    /\ prompt' = [prompt EXCEPT ![r] = create_review_prompt(code_content[r], "upload.py")]
    /\ Goto(r, "invoke")
    /\ UNCHANGED <<GEMINI_API_KEY, model, thread, file, code_content, response,
                   cleaned_response_text, review_data, calls>>

\* Line 117: model.generate_content(prompt), a synchronous call: the handler
\* keeps the event loop until the call returns or raises.
InvokeModel(r) ==
    /\ pc[r] = "invoke"
    /\ thread = r
    /\ Step(r, "call")
    /\ calls' = [calls EXCEPT ![r] = @ + 1]
    /\ Goto(r, "waiting")
    /\ UNCHANGED <<GEMINI_API_KEY, model, thread, file, code_content, prompt,
                   response, cleaned_response_text, review_data>>

\* Mutant: a failed call is tried again.
ModelReturnsRetry(r) ==
    /\ pc[r] = "waiting"
    /\ thread = r
    /\ \E o \in Outcomes :
          IF o.kind = "raise"
          THEN /\ Goto(r, "invoke")
               /\ UNCHANGED response
          ELSE /\ response' = [response EXCEPT ![r] = o]
               /\ Goto(r, "clean")
    /\ UNCHANGED <<GEMINI_API_KEY, model, thread, file, code_content, prompt,
                   cleaned_response_text, review_data, calls, trace>>

\* The model service answers the call of line 117 (or the call raises).
ModelReturns(r) ==
    /\ pc[r] = "waiting"
    /\ thread = r
    /\ \E o \in Outcomes :
          IF o.kind = "raise"
          THEN /\ Respond(r, Catch([type |-> "ServiceUnavailable",
                                    str |-> StrServiceError]))
               /\ UNCHANGED response
          ELSE /\ response' = [response EXCEPT ![r] = o]
               /\ Goto(r, "clean")
               /\ UNCHANGED thread
    /\ UNCHANGED <<GEMINI_API_KEY, model, file, code_content, prompt,
                   cleaned_response_text, review_data, calls, trace>>

\* Line 121: response.text raises ValueError when the response has no valid
\* part; otherwise the text is cleaned.
CleanStep(r) ==
    /\ pc[r] = "clean"
    /\ thread = r
    /\ Step(r, "clean")
    /\ IF response[r].kind = "blocked"
       THEN /\ Respond(r, Catch([type |-> "ValueError", str |-> StrNoTextPart]))
            /\ UNCHANGED cleaned_response_text
       ELSE /\ cleaned_response_text' =
                   [cleaned_response_text EXCEPT ![r] = CleanResponse(response[r].text)]
            /\ Goto(r, "parse")
            /\ UNCHANGED thread
    /\ UNCHANGED <<GEMINI_API_KEY, model, file, code_content, prompt, response,
                   review_data, calls>>

\* Line 123: json.loads(cleaned_response_text).
ParseStep(r) ==
    /\ pc[r] = "parse"
    /\ thread = r
    /\ Step(r, "parse")
    /\ \E p \in {JsonLoads(cleaned_response_text[r])} :
           IF p.ok
           THEN /\ review_data' = [review_data EXCEPT ![r] = p.val]
                /\ Goto(r, "return")
                /\ UNCHANGED thread
           ELSE /\ Respond(r, Catch([type |-> "JSONDecodeError",
                                     str |-> StrJSONDecodeError]))
                /\ UNCHANGED review_data
    /\ UNCHANGED <<GEMINI_API_KEY, model, file, code_content, prompt, response,
                   cleaned_response_text, calls>>

\* Line 126: return JSONResponse(content=review_data); the body is rendered
\* by the constructor, inside the try block.
ReturnStep(r) ==
    /\ pc[r] = "return"
    /\ thread = r
    /\ Step(r, "return")
    /\ \E b \in {Render(review_data[r])} :
           IF b.ok
           THEN Respond(r, JSONResponse(b.body))
           ELSE Respond(r, Catch([type |-> b.err, str |-> StrNotJSONCompliant]))
    /\ UNCHANGED <<GEMINI_API_KEY, model, file, code_content, prompt, response,
                   cleaned_response_text, review_data, calls>>

Next ==
    \E r \in Requests :
        \/ Receive(r)
        \/ ConfigCheck(r)
        \/ ReadDecode(r)
        \/ EmptyCheck(r)
        \/ BuildPrompt(r)
        \/ InvokeModel(r)
        \/ ModelReturns(r)
        \/ CleanStep(r)
        \/ ParseStep(r)
        \/ ReturnStep(r)

Spec == Init /\ [][Next]_vars

--------------------------------------------------------------------------
(* Scheduling.  The event loop runs every handler that is ready, so each   *)
(* step of a handler is weakly fair.  Nothing makes a client send a        *)
(* request, and nothing in the code bounds the call of line 117: there is  *)
(* no timeout, so no fairness on Receive or ModelReturns.                  *)

HandlerStep(r) ==
    \/ ConfigCheck(r)
    \/ ReadDecode(r)
    \/ EmptyCheck(r)
    \/ BuildPrompt(r)
    \/ InvokeModel(r)
    \/ CleanStep(r)
    \/ ParseStep(r)
    \/ ReturnStep(r)

FairSpec == Spec /\ \A r \in Requests : WF_vars(HandlerStep(r))

--------------------------------------------------------------------------
(* Cleaning and parsing on their own.  The model service may answer a call *)
(* with any text: request 1 has received a reply put together from at most *)
(* MaxPieces pieces, and the handler goes on from line 121.                *)

\* "`", "``", "```", "```json", "json", "js", "on", " ", "\n", '{"a":1}'
Pieces ==
    { <<96>>, <<96, 96>>, Fence, FenceJson, <<106, 115, 111, 110>>, <<106, 115>>,
      <<111, 110>>, <<32>>, <<10>>, JsonA1 }

RECURSIVE Texts(_)
Texts(n) ==
    IF n = 0 THEN {<< >>}
    ELSE LET shorter == Texts(n - 1)
         IN  shorter \cup {t \o p : t \in shorter, p \in Pieces}

InitClean ==
    /\ GEMINI_API_KEY = "AIza-key"
    /\ model = ModelAtStartup(GEMINI_API_KEY)
    /\ thread = 1
    /\ pc = [r \in Requests |-> IF r = 1 THEN "clean" ELSE "idle"]
    /\ file = [r \in Requests |-> IF r = 1 THEN UploadCode ELSE << >>]
    /\ code_content =
           [r \in Requests |-> IF r = 1 THEN Utf8Decode(UploadCode).text ELSE << >>]
    /\ prompt =
           [r \in Requests |->
               IF r = 1
               THEN create_review_prompt(Utf8Decode(UploadCode).text, "upload.py")
               ELSE << >>]
    /\ \E t \in Texts(MaxPieces) :
           response = [r \in Requests |->
                          IF r = 1 THEN [kind |-> "text", text |-> t] ELSE NoOutcome]
    /\ cleaned_response_text = [r \in Requests |-> << >>]
    /\ review_data = [r \in Requests |-> <<"unset">>]
    /\ http = [r \in Requests |-> << >>]
    /\ calls = [r \in Requests |-> IF r = 1 THEN 1 ELSE 0]
    /\ trace = [r \in Requests |->
                   IF r = 1 THEN <<"config", "decode", "empty", "prompt", "call">>
                   ELSE << >>]

NextClean ==
    \E r \in Requests :
        \/ CleanStep(r)
        \/ ParseStep(r)
        \/ ReturnStep(r)

SpecClean == InitClean /\ [][NextClean]_vars

--------------------------------------------------------------------------
(* Vocabulary of the properties.                                           *)

Done(r) == pc[r] = "done"

\* The response of a finished request.
Reply(r) == http[r][1]

Decoded(r) == Utf8Decode(file[r])

\* The upload decodes to text that is empty or white space only.
BlankUpload(r) == Decoded(r).ok /\ Strip(Decoded(r).text) = << >>

Did(r, name) == \E n \in 1..Len(trace[r]) : trace[r][n] = name

MentionsEmpty(detail) ==
    \E n \in 1..Len(detail) :
        detail[n] \in {DetailEmpty, "400: The uploaded file is empty."}

StepOrder ==
    <<"config", "decode", "empty", "prompt", "call", "clean", "parse", "return">>

--------------------------------------------------------------------------
(* Properties.                                                             *)

\* C1: with the model client configured, a request whose upload decodes to
\* empty or white-space-only text is answered with status 400 and a detail
\* that mentions "empty".
C1_BlankUploadAnswered400 ==
    \A r \in Requests :
        (model # "None" /\ Done(r) /\ BlankUpload(r))
            => /\ Len(http[r]) = 1
               /\ Reply(r).status = 400
               /\ MentionsEmpty(Reply(r).detail)

\* C2: when GEMINI_API_KEY is missing or empty at start-up, every request,
\* whatever its upload, ends with status 503, the model service is never
\* called for it and no step after the configuration check is executed.
C2_UnconfiguredAnswers503 ==
    \A r \in Requests :
        GEMINI_API_KEY \in {"<missing>", ""}
            => /\ calls[r] = 0
               /\ trace[r] \in {<< >>, <<"config">>}
               /\ pc[r] \in {"idle", "start", "done"}
               /\ Done(r) => /\ Len(http[r]) = 1
                             /\ Reply(r).status = 503

C2_Witness ==
    \E r \in Requests :
        /\ GEMINI_API_KEY = ""
        /\ file[r] = UploadCode
        /\ Done(r)
        /\ Reply(r).status = 503
        /\ calls[r] = 0

\* C3: for a request whose decoded text is empty or all white space,
\* model.generate_content is never invoked: the emptiness check comes first
\* and ends the request.
C3_BlankUploadNeverCallsModel ==
    \A r \in Requests :
        (pc[r] # "idle" /\ BlankUpload(r))
            => /\ calls[r] = 0
               /\ ~Did(r, "prompt")
               /\ ~Did(r, "call")
               /\ pc[r] \in {"start", "reading", "check", "done"}

C3_Witness ==
    \E r \in Requests :
        /\ file[r] = UploadBlank
        /\ Did(r, "empty")
        /\ Done(r)
        /\ calls[r] = 0

C5_OkBodyIsReviewResult ==
    \A r \in Requests :
        (Done(r) /\ Reply(r).status = 200)
            => LET text == Utf8Decode(Reply(r).body)
               IN  /\ text.ok
                   /\ JsonLoads(text.text).ok
                   /\ IsReviewResult(JsonLoads(text.text).val)

C7_OthersProgressWhileWaiting ==
    \A r \in Requests : \A q \in Requests \ {r} :
        (pc[r] \in {"reading", "waiting"} /\ pc[q] \in {"start", "reading"})
            => ENABLED HandlerStep(q)

\* C8: cleaning leaves no occurrence of either fence literal and no
\* surrounding white space; a reply without a fence literal is only
\* stripped; and '```json{"a":1}```' is cleaned to '{"a":1}'.
C8_CleaningRemovesFences ==
    \A r \in Requests :
        (Did(r, "clean") /\ response[r].kind = "text")
            => LET raw     == response[r].text
                   cleaned == cleaned_response_text[r]
               IN  /\ ~Contains(cleaned, Fence)
                   /\ ~Contains(cleaned, FenceJson)
                   /\ cleaned = << >> \/
                          (~IsSpace(cleaned[1]) /\ ~IsSpace(cleaned[Len(cleaned)]))
                   /\ ~Contains(raw, Fence) =>
                          /\ Len(cleaned) <= Len(raw)
                          /\ \E lead \in 0..(Len(raw) - Len(cleaned)) :
                                /\ cleaned = SubSeq(raw, lead + 1, lead + Len(cleaned))
                                /\ \A n \in 1..lead : IsSpace(raw[n])
                                /\ \A n \in (lead + Len(cleaned) + 1)..Len(raw) :
                                       IsSpace(raw[n])
                   /\ raw = FenceJson \o JsonA1 \o Fence => cleaned = JsonA1

C8_Witness ==
    \E r \in Requests :
        /\ Did(r, "clean")
        /\ response[r].text = <<96, 96>> \o FenceJson \o <<96>>
        /\ cleaned_response_text[r] = << >>

\* C9: a failure other than the unconfigured service, the empty upload and
\* the JSON parse failure (the upload is not UTF-8, the model call raises,
\* the reply has no text, the body cannot be rendered) ends the request with
\* status 500 and a detail that carries the description of the error.
C9_OtherFailuresAnsweredGeneric500 ==
    \A r \in Requests :
        (Done(r) /\ model # "None")
            => LET generic(desc) ==
                       /\ Len(http[r]) = 1
                       /\ Reply(r).status = 500
                       /\ Reply(r).detail = <<DetailUnexpected, desc>>
               IN  /\ ~Decoded(r).ok => generic(StrUnicodeDecodeError)
                   /\ (trace[r][Len(trace[r])] = "call") => generic(StrServiceError)
                   /\ response[r].kind = "blocked" => generic(StrNoTextPart)
                   /\ (Did(r, "return") /\ HasNonFinite(review_data[r]))
                          => generic(StrNotJSONCompliant)

C9_Witness ==
    \E r \in Requests : \E q \in Requests :
        /\ Done(r)
        /\ file[r] = UploadNotUtf8
        /\ Reply(r).detail = <<DetailUnexpected, StrUnicodeDecodeError>>
        /\ Done(q)
        /\ trace[q][Len(trace[q])] = "call"
        /\ Reply(q).status = 500

\* C10: the steps of a request are executed in the order config check,
\* decode, emptiness check, prompt build, model call, clean, parse, return,
\* each at most once; the model service is invoked at most once; and a
\* request that has failed is finished, with a failure status, and takes no
\* further step.
C10_StepOrderNoRetry ==
    \A r \in Requests :
        /\ Len(trace[r]) <= Len(StepOrder)
        /\ trace[r] = SubSeq(StepOrder, 1, Len(trace[r]))
        /\ calls[r] = (IF Did(r, "call") THEN 1 ELSE 0)
        /\ Len(http[r]) <= 1
        /\ http[r] # << >> =>
               /\ Done(r)
               /\ Reply(r).status \in {200, 400, 500, 503}
               /\ Reply(r).status = 200 => trace[r] = StepOrder
        /\ Done(r) => ~ENABLED (HandlerStep(r) \/ ModelReturns(r) \/ Receive(r))

C10_Witness ==
    \E r \in Requests :
        /\ Done(r)
        /\ trace[r] = SubSeq(StepOrder, 1, 7)
        /\ calls[r] = 1
        /\ Reply(r).status = 500

====
